---- MODULE Spec2Model ----
(***************************************************************************)
(* Model of the insurance claims agent: the /process-claim handler         *)
(* (app/main.py) and the stages it runs: LLMExtractor.extract_fields,      *)
(* ClaimValidator.validate, ClaimRouter.route_claim and                    *)
(* ReasoningLLM.generate_reasoning.                                        *)
(*                                                                         *)
(* Values.  A JSON / Python value is a tagged record:                      *)
(*   [t |-> "null"]                 None / JSON null / key not given       *)
(*   [t |-> "str", v |-> chars]     a string, chars a sequence of 1-char   *)
(*                                  strings (<<>> is the empty string)     *)
(*   [t |-> "num", v |-> n]         a number                               *)
(*   [t |-> "numstr", v |-> n]      a string that spells the number n      *)
(*   [t |-> "obj", v |-> record]    a JSON object / nested model           *)
(*   [t |-> "scalar"]               a decoded JSON value that is no object *)
(* Only the fields the validator's checklist and the router read are       *)
(* carried; numbers are integers.                                          *)
(***************************************************************************)
EXTENDS Integers, Sequences, FiniteSets, TLC

VARIABLES pc, max_retries, extracted_data, claim_data, missing_fields,
          recommended_route, reasoning, attempt, ext_log, rsn_log, stages,
          error, response, settings, prompt, llm_prompts

vars == <<pc, max_retries, extracted_data, claim_data, missing_fields,
          recommended_route, reasoning, attempt, ext_log, rsn_log, stages,
          error, response, settings, prompt, llm_prompts>>

-----------------------------------------------------------------------------
(* Bounds of the model *)

\* estimated_damage ranges over 0 and the integers within DamageSpread of the
\* fast-track threshold
DamageSpread == 1

\* an LLM reply is a sequence of at most MaxReplyLen tokens
MaxReplyLen == 3

\* the configured max_retries ranges over 0 .. MaxRetriesCap (the default is 3)
MaxRetriesCap == 3
DescOver == 3

-----------------------------------------------------------------------------
(* Values *)

None == [t |-> "null"]
Str(s) == [t |-> "str", v |-> s]
Num(n) == [t |-> "num", v |-> n]
NumStr(n) == [t |-> "numstr", v |-> n]
Obj(r) == [t |-> "obj", v |-> r]
Scalar == [t |-> "scalar"]

\* Python truthiness: None, "" and 0 are falsy; a model instance is truthy
Truthy(x) ==
    CASE x.t = "null" -> FALSE
      [] x.t = "str" -> x.v # <<>>
      [] x.t = "num" -> x.v # 0
      [] OTHER -> TRUE

\* str.lower() on one character
LowerChar(c) ==
    CASE c = "A" -> "a" [] c = "B" -> "b" [] c = "C" -> "c" [] c = "D" -> "d"
      [] c = "E" -> "e" [] c = "F" -> "f" [] c = "G" -> "g" [] c = "H" -> "h"
      [] c = "I" -> "i" [] c = "J" -> "j" [] c = "K" -> "k" [] c = "L" -> "l"
      [] c = "M" -> "m" [] c = "N" -> "n" [] c = "O" -> "o" [] c = "P" -> "p"
      [] c = "Q" -> "q" [] c = "R" -> "r" [] c = "S" -> "s" [] c = "T" -> "t"
      [] c = "U" -> "u" [] c = "V" -> "v" [] c = "W" -> "w" [] c = "X" -> "x"
      [] c = "Y" -> "y" [] c = "Z" -> "z" [] OTHER -> c

\* str.lower()
Lower(s) == [i \in 1..Len(s) |-> LowerChar(s[i])]

\* Python's `kw in s` on strings: kw occurs in s as a contiguous substring
Contains(s, kw) ==
    \E i \in 0..(Len(s) - Len(kw)) :
        \A j \in 1..Len(kw) : s[i + j] = kw[j]

-----------------------------------------------------------------------------
(* app/models.py *)

PolicyInformation(policy_number, policyholder_name) ==
    Obj([policy_number |-> policy_number, policyholder_name |-> policyholder_name])

IncidentInformation(date, location, description) ==
    Obj([date |-> date, location |-> location, description |-> description])

InvolvedParties(claimant) == Obj([claimant |-> claimant])

AssetDetails(estimated_damage) == Obj([estimated_damage |-> estimated_damage])

\* ClaimData(): every field defaults to None
ClaimData ==
    [policy_information |-> None, incident_information |-> None,
     involved_parties |-> None, asset_details |-> None, claim_type |-> None]

-----------------------------------------------------------------------------
(* app/config.py *)

SETTINGS_FAST_TRACK_THRESHOLD == 25000

\* Settings(): the business-rule fields with their defaults
Settings ==
    [fast_track_threshold |-> SETTINGS_FAST_TRACK_THRESHOLD,
     investigation_keywords |->
        << <<"f","r","a","u","d">>,
           <<"i","n","c","o","n","s","i","s","t","e","n","t">>,
           <<"s","t","a","g","e","d">> >>]

-----------------------------------------------------------------------------
(* app/router.py *)

INVESTIGATION_KEYWORDS ==
    << <<"f","r","a","u","d">>,
       <<"i","n","c","o","n","s","i","s","t","e","n","t">>,
       <<"s","t","a","g","e","d">> >>

FAST_TRACK_THRESHOLD == 25000

injury == <<"i","n","j","u","r","y">>

\* lines 45-47: the lower-cased description, "" when the group or it is falsy
RouterDescription(cd) ==
    IF Truthy(cd.incident_information)
       /\ Truthy(cd.incident_information.v.description)
    THEN Lower(cd.incident_information.v.description.v)
    ELSE <<>>

\* lines 60-62: the damage, None when the group or the value is None
RouterDamage(cd) ==
    IF Truthy(cd.asset_details)
       /\ cd.asset_details.v.estimated_damage.t # "null"
    THEN cd.asset_details.v.estimated_damage
    ELSE None

\* the rules in the order the docstring numbers them (fast-track first)
route_claim_docstring_order(cd, missing) ==
    IF RouterDamage(cd).t # "null" /\ RouterDamage(cd).v < FAST_TRACK_THRESHOLD
    THEN "Fast-track"
    ELSE IF missing # <<>> THEN "Manual review"
    ELSE IF \E k \in 1..Len(INVESTIGATION_KEYWORDS) :
               Contains(RouterDescription(cd), INVESTIGATION_KEYWORDS[k])
    THEN "Investigation Flag"
    ELSE IF Truthy(cd.claim_type) /\ Lower(cd.claim_type.v) = injury
    THEN "Specialist Queue"
    ELSE "Standard Processing"

\* injury checked before the keywords
route_claim_injury_first(cd, missing) ==
    IF missing # <<>> THEN "Manual review"
    ELSE IF Truthy(cd.claim_type) /\ Lower(cd.claim_type.v) = injury
    THEN "Specialist Queue"
    ELSE IF \E k \in 1..Len(INVESTIGATION_KEYWORDS) :
               Contains(RouterDescription(cd), INVESTIGATION_KEYWORDS[k])
    THEN "Investigation Flag"
    ELSE IF RouterDamage(cd).t # "null" /\ RouterDamage(cd).v < FAST_TRACK_THRESHOLD
    THEN "Fast-track"
    ELSE "Standard Processing"

\* claim_type compared without lower()
route_claim_case_sensitive(cd, missing) ==
    IF missing # <<>> THEN "Manual review"
    ELSE IF \E k \in 1..Len(INVESTIGATION_KEYWORDS) :
               Contains(RouterDescription(cd), INVESTIGATION_KEYWORDS[k])
    THEN "Investigation Flag"
    ELSE IF Truthy(cd.claim_type) /\ cd.claim_type.v = injury
    THEN "Specialist Queue"
    ELSE IF RouterDamage(cd).t # "null" /\ RouterDamage(cd).v < FAST_TRACK_THRESHOLD
    THEN "Fast-track"
    ELSE "Standard Processing"

\* the threshold compared with <= instead of <
route_claim_inclusive(cd, missing) ==
    IF missing # <<>> THEN "Manual review"
    ELSE IF \E k \in 1..Len(INVESTIGATION_KEYWORDS) :
               Contains(RouterDescription(cd), INVESTIGATION_KEYWORDS[k])
    THEN "Investigation Flag"
    ELSE IF Truthy(cd.claim_type) /\ Lower(cd.claim_type.v) = injury
    THEN "Specialist Queue"
    ELSE IF RouterDamage(cd).t # "null" /\ RouterDamage(cd).v <= FAST_TRACK_THRESHOLD
    THEN "Fast-track"
    ELSE "Standard Processing"

\* ClaimRouter.route_claim: first matching rule wins
route_claim(cd, missing) ==
    IF missing # <<>> THEN "Manual review"
    ELSE IF \E k \in 1..Len(INVESTIGATION_KEYWORDS) :
               Contains(RouterDescription(cd), INVESTIGATION_KEYWORDS[k])
    THEN "Investigation Flag"
    ELSE IF Truthy(cd.claim_type) /\ Lower(cd.claim_type.v) = injury
    THEN "Specialist Queue"
    ELSE IF RouterDamage(cd).t # "null" /\ RouterDamage(cd).v < FAST_TRACK_THRESHOLD
    THEN "Fast-track"
    ELSE "Standard Processing"

-----------------------------------------------------------------------------
(* pydantic coercion of a decoded mapping into ClaimData (app/models.py) *)

\* Optional[str]: None and strings are accepted, anything else is an error
StrFieldOk(x) == x.t \in {"null", "str", "numstr"}

\* Optional[float]: None, numbers and strings spelling a number are accepted
FloatFieldOk(x) == x.t \in {"null", "num", "numstr"}

FloatField(x) == IF x.t = "numstr" THEN Num(x.v) ELSE x

PolicyOk(x) ==
    \/ x.t = "null"
    \/ /\ x.t = "obj"
       /\ StrFieldOk(x.v.policy_number)
       /\ StrFieldOk(x.v.policyholder_name)

IncidentOk(x) ==
    \/ x.t = "null"
    \/ /\ x.t = "obj"
       /\ StrFieldOk(x.v.date)
       /\ StrFieldOk(x.v.location)
       /\ StrFieldOk(x.v.description)

PartiesOk(x) ==
    \/ x.t = "null"
    \/ x.t = "obj" /\ StrFieldOk(x.v.claimant)

AssetOk(x) ==
    \/ x.t = "null"
    \/ x.t = "obj" /\ FloatFieldOk(x.v.estimated_damage)

AssetValue(x) ==
    IF x.t = "obj" THEN AssetDetails(FloatField(x.v.estimated_damage)) ELSE x

\* ClaimData(**extracted_data) succeeds: the argument is a mapping and every
\* value validates; one invalid value fails the whole construction
ClaimDataOk(raw) ==
    /\ raw.t = "obj"
    /\ PolicyOk(raw.v.policy_information)
    /\ IncidentOk(raw.v.incident_information)
    /\ PartiesOk(raw.v.involved_parties)
    /\ AssetOk(raw.v.asset_details)
    /\ StrFieldOk(raw.v.claim_type)

\* the instance ClaimData(**extracted_data) builds when it succeeds
ClaimDataOf(raw) ==
    [policy_information |-> raw.v.policy_information,
     incident_information |-> raw.v.incident_information,
     involved_parties |-> raw.v.involved_parties,
     asset_details |-> AssetValue(raw.v.asset_details),
     claim_type |-> raw.v.claim_type]

-----------------------------------------------------------------------------
(* app/validator.py *)

MANDATORY_FIELDS ==
    << "policy_information.policy_number",
       "policy_information.policyholder_name",
       "incident_information.date",
       "incident_information.location",
       "incident_information.description",
       "involved_parties.claimant",
       "asset_details.estimated_damage",
       "claim_type" >>

\* `if cond: missing.append(path)`
AppendIf(cond, path) == IF cond THEN <<path>> ELSE <<>>

\* estimated_damage tested with `not`, as the string fields are
check_mandatory_fields_falsy_damage(cd) ==
    AppendIf(~Truthy(cd.policy_information) \/ ~Truthy(cd.policy_information.v.policy_number),
             "policy_information.policy_number")
    \o AppendIf(~Truthy(cd.policy_information) \/ ~Truthy(cd.policy_information.v.policyholder_name),
             "policy_information.policyholder_name")
    \o AppendIf(~Truthy(cd.incident_information) \/ ~Truthy(cd.incident_information.v.date),
             "incident_information.date")
    \o AppendIf(~Truthy(cd.incident_information) \/ ~Truthy(cd.incident_information.v.location),
             "incident_information.location")
    \o AppendIf(~Truthy(cd.incident_information) \/ ~Truthy(cd.incident_information.v.description),
             "incident_information.description")
    \o AppendIf(~Truthy(cd.involved_parties) \/ ~Truthy(cd.involved_parties.v.claimant),
             "involved_parties.claimant")
    \o AppendIf(~Truthy(cd.asset_details) \/ ~Truthy(cd.asset_details.v.estimated_damage),
             "asset_details.estimated_damage")
    \o AppendIf(~Truthy(cd.claim_type), "claim_type")

\* claim_type checked first instead of last
check_mandatory_fields_claim_type_first(cd) ==
    AppendIf(~Truthy(cd.claim_type), "claim_type")
    \o AppendIf(~Truthy(cd.policy_information) \/ ~Truthy(cd.policy_information.v.policy_number),
             "policy_information.policy_number")
    \o AppendIf(~Truthy(cd.policy_information) \/ ~Truthy(cd.policy_information.v.policyholder_name),
             "policy_information.policyholder_name")
    \o AppendIf(~Truthy(cd.incident_information) \/ ~Truthy(cd.incident_information.v.date),
             "incident_information.date")
    \o AppendIf(~Truthy(cd.incident_information) \/ ~Truthy(cd.incident_information.v.location),
             "incident_information.location")
    \o AppendIf(~Truthy(cd.incident_information) \/ ~Truthy(cd.incident_information.v.description),
             "incident_information.description")
    \o AppendIf(~Truthy(cd.involved_parties) \/ ~Truthy(cd.involved_parties.v.claimant),
             "involved_parties.claimant")
    \o AppendIf(~Truthy(cd.asset_details) \/ cd.asset_details.v.estimated_damage.t = "null",
             "asset_details.estimated_damage")

\* ClaimValidator._check_mandatory_fields
check_mandatory_fields(cd) ==
    AppendIf(~Truthy(cd.policy_information) \/ ~Truthy(cd.policy_information.v.policy_number),
             "policy_information.policy_number")
    \o AppendIf(~Truthy(cd.policy_information) \/ ~Truthy(cd.policy_information.v.policyholder_name),
             "policy_information.policyholder_name")
    \o AppendIf(~Truthy(cd.incident_information) \/ ~Truthy(cd.incident_information.v.date),
             "incident_information.date")
    \o AppendIf(~Truthy(cd.incident_information) \/ ~Truthy(cd.incident_information.v.location),
             "incident_information.location")
    \o AppendIf(~Truthy(cd.incident_information) \/ ~Truthy(cd.incident_information.v.description),
             "incident_information.description")
    \o AppendIf(~Truthy(cd.involved_parties) \/ ~Truthy(cd.involved_parties.v.claimant),
             "involved_parties.claimant")
    \o AppendIf(~Truthy(cd.asset_details) \/ cd.asset_details.v.estimated_damage.t = "null",
             "asset_details.estimated_damage")
    \o AppendIf(~Truthy(cd.claim_type), "claim_type")

\* a coercion that keeps the groups that validate and drops only the others
validate_partial(raw) ==
    LET cd == IF raw.t # "obj" THEN ClaimData
              ELSE [policy_information |->
                        IF PolicyOk(raw.v.policy_information)
                        THEN raw.v.policy_information ELSE None,
                    incident_information |->
                        IF IncidentOk(raw.v.incident_information)
                        THEN raw.v.incident_information ELSE None,
                    involved_parties |->
                        IF PartiesOk(raw.v.involved_parties)
                        THEN raw.v.involved_parties ELSE None,
                    asset_details |->
                        IF AssetOk(raw.v.asset_details)
                        THEN AssetValue(raw.v.asset_details) ELSE None,
                    claim_type |->
                        IF StrFieldOk(raw.v.claim_type)
                        THEN raw.v.claim_type ELSE None]
    IN  [raised |-> FALSE, claim_data |-> cd,
         missing_fields |-> check_mandatory_fields(cd)]

\* the constructor's exception is not caught
validate_unguarded(raw) ==
    LET cd == IF ClaimDataOk(raw) THEN ClaimDataOf(raw) ELSE ClaimData
    IN  [raised |-> ~ClaimDataOk(raw), claim_data |-> cd,
         missing_fields |-> check_mandatory_fields(cd)]

\* ClaimValidator.validate: the constructor's exception is caught and replaced
\* by the empty model; nothing else in the body raises
validate(raw) ==
    LET cd == IF ClaimDataOk(raw) THEN ClaimDataOf(raw) ELSE ClaimData
    IN  [raised |-> FALSE, claim_data |-> cd,
         missing_fields |-> check_mandatory_fields(cd)]

-----------------------------------------------------------------------------
(* app/extractor_llm.py *)

(* An LLM reply is a sequence of tokens:                                   *)
(*   "J"  the text ```json        "F"  the text ```                        *)
(*   "{"  an opening brace        "}"  a closing brace                     *)
(*   "k"  the members of an object (text without braces)                   *)
(*   "v"  a JSON value that is no object (a number, null, a list)          *)
(*   "x"  prose                   "_"  whitespace                          *)
Tokens == {"J", "F", "{", "}", "k", "v", "x", "_"}

\* str.lstrip()
RECURSIVE LStrip(_)
LStrip(s) == IF s # <<>> /\ Head(s) = "_" THEN LStrip(Tail(s)) ELSE s

\* str.rstrip()
RECURSIVE RStrip(_)
RStrip(s) ==
    IF s # <<>> /\ s[Len(s)] = "_" THEN RStrip(SubSeq(s, 1, Len(s) - 1)) ELSE s

\* str.strip()
Strip(s) == RStrip(LStrip(s))

\* lines 64-71: strip, drop a leading ```json, then a leading ```, then a
\* trailing ```, strip again
StripFences(text) ==
    LET c0 == Strip(text)
        c1 == IF c0 # <<>> /\ Head(c0) = "J" THEN Tail(c0) ELSE c0
        c2 == IF c1 # <<>> /\ Head(c1) = "F" THEN Tail(c1) ELSE c1
        c3 == IF c2 # <<>> /\ c2[Len(c2)] = "F"
              THEN SubSeq(c2, 1, Len(c2) - 1) ELSE c2
    IN  Strip(c3)

\* the tokens of s that are not whitespace (JSON ignores whitespace between
\* tokens)
RECURSIVE Dense(_)
Dense(s) ==
    IF s = <<>> THEN <<>>
    ELSE IF Head(s) = "_" THEN Dense(Tail(s))
    ELSE <<Head(s)>> \o Dense(Tail(s))

\* json.loads(s) succeeds: s is one JSON value
JsonLoadsOk(s) ==
    Dense(s) \in { <<"v">>, <<"{", "}">>, <<"{", "k", "}">> }

\* str.find('{'): index of the first "{" (0-based), -1 when there is none
Find(s) ==
    IF \E i \in 1..Len(s) : s[i] = "{"
    THEN (CHOOSE i \in 1..Len(s) :
              s[i] = "{" /\ \A j \in 1..(i - 1) : s[j] # "{") - 1
    ELSE -1

\* str.rfind('}'): index of the last "}" (0-based), -1 when there is none
RFind(s) ==
    IF \E i \in 1..Len(s) : s[i] = "}"
    THEN (CHOOSE i \in 1..Len(s) :
              s[i] = "}" /\ \A j \in (i + 1)..Len(s) : s[j] # "}") - 1
    ELSE -1

\* lines 82-88: the recovery heuristic finds a substring that json.loads
\* accepts
RecoveryOk(content) ==
    LET json_start == Find(content)
        json_end == RFind(content) + 1
    IN  /\ json_start >= 0
        /\ json_end > json_start
        /\ JsonLoadsOk(SubSeq(content, json_start + 1, json_end))

\* lines 82-85: the substring the heuristic parses
RecoveryText(content) == SubSeq(content, Find(content) + 1, RFind(content) + 1)

\* LLMExtractor._build_extraction_prompt: the fixed instructions around the
\* document text
build_extraction_prompt(document_text) ==
    [kind |-> "extraction", document_text |-> document_text]

\* one call of model.generate_content(prompt) followed by response.text:
\* it raises, or yields a text
LLMError == [ok |-> FALSE, text |-> <<>>]

LLMText(s) == [ok |-> TRUE, text |-> s]

RECURSIVE SeqsUpTo(_, _)
SeqsUpTo(S, n) ==
    IF n = 0 THEN {<<>>}
    ELSE LET shorter == SeqsUpTo(S, n - 1)
         IN  shorter \cup {Append(q, x) : q \in shorter, x \in S}

ExtractionReplies ==
    {LLMError} \cup {LLMText(s) : s \in SeqsUpTo(Tokens, MaxReplyLen)}

\* what one iteration of the loop observes of its reply (kept per attempt)
AttemptRecord(reply) ==
    [err |-> ~reply.ok,
     strict |-> reply.ok /\ JsonLoadsOk(StripFences(reply.text)),
     recov |-> reply.ok /\ RecoveryOk(StripFences(reply.text))]

\* a corrective retry: the prompt of a later attempt differs from the first
extract_call_prompt_corrective(p, att) ==
    IF att = 0 THEN p ELSE [p EXCEPT !.kind = "corrective"]

\* line 58: the argument of generate_content in iteration att is the prompt
\* built before the loop
extract_call_prompt(p, att) == p

\* the loop returns a parsed reply only from its last iteration
ExtractAttemptOutcome_no_early_return(reply, att, retries) ==
    IF att = retries - 1
    THEN IF ~reply.ok THEN "raise"
         ELSE IF JsonLoadsOk(StripFences(reply.text)) THEN "return"
         ELSE IF RecoveryOk(StripFences(reply.text))
              THEN "return_recovered" ELSE "raise"
    ELSE "retry"

\* the recovery heuristic tried on every attempt, not only the last
ExtractAttemptOutcome_recover_always(reply, att, retries) ==
    IF ~reply.ok
    THEN IF att = retries - 1 THEN "raise" ELSE "retry"
    ELSE IF JsonLoadsOk(StripFences(reply.text)) THEN "return"
    ELSE IF RecoveryOk(StripFences(reply.text)) THEN "return_recovered"
    ELSE IF att = retries - 1 THEN "raise" ELSE "retry"

\* lines 57-95, one iteration of the loop of extract_fields with loop index
\* att: "return" (line 74), "return_recovered" (line 88), "raise" (lines 91,
\* 95) or "retry" (the loop goes on)
ExtractAttemptOutcome(reply, att, retries) ==
    IF ~reply.ok
    THEN IF att = retries - 1 THEN "raise" ELSE "retry"
    ELSE IF JsonLoadsOk(StripFences(reply.text)) THEN "return"
    ELSE IF att = retries - 1
         THEN IF RecoveryOk(StripFences(reply.text))
              THEN "return_recovered" ELSE "raise"
         ELSE "retry"

-----------------------------------------------------------------------------
(* app/reasoning_llm.py *)

\* the preview keeps this many characters of the description
PREVIEW_CHARS == 200

\* s[:n]
Take(s, n) == SubSeq(s, 1, IF Len(s) < n THEN Len(s) ELSE n)

\* the preview without the cut: the whole description and "..."
description_preview_uncut(cd) ==
    IF Truthy(cd.incident_information)
       /\ Truthy(cd.incident_information.v.description)
    THEN Str(cd.incident_information.v.description.v \o <<".", ".", ".">>)
    ELSE None

\* lines 101-102: description[:200] + "...", None without a description
description_preview(cd) ==
    IF Truthy(cd.incident_information)
       /\ Truthy(cd.incident_information.v.description)
    THEN Str(Take(cd.incident_information.v.description.v, PREVIEW_CHARS)
             \o <<".", ".", ".">>)
    ELSE None

\* ReasoningLLM._build_reasoning_prompt: the claim summary, the missing list
\* and the route inside fixed instructions
build_reasoning_prompt(cd, missing, route) ==
    [kind |-> "reasoning",
     claim_summary |->
        [policy_number |->
            IF Truthy(cd.policy_information)
            THEN cd.policy_information.v.policy_number ELSE None,
         claim_type |-> cd.claim_type,
         estimated_damage |->
            IF Truthy(cd.asset_details)
            THEN cd.asset_details.v.estimated_damage ELSE None,
         incident_date |->
            IF Truthy(cd.incident_information)
            THEN cd.incident_information.v.date ELSE None,
         description_preview |-> description_preview(cd)],
     missing_fields |-> missing,
     recommended_route |-> route]

\* the reply of the reasoning model: words "w" and whitespace "_"
ReasoningReplies ==
    {LLMError} \cup {LLMText(s) : s \in SeqsUpTo({"w", "_"}, MaxReplyLen)}

\* the template chosen by the route first; the missing list is cited only in
\* the text of "Manual review"
generate_fallback_reasoning_route_first(missing, route) ==
    IF route = "Fast-track"
    THEN [t |-> "fallback", template |-> "estimated damage below threshold",
          route |-> route, fields |-> <<>>]
    ELSE IF route = "Investigation Flag"
    THEN [t |-> "fallback", template |-> "suspicious keywords detected",
          route |-> route, fields |-> <<>>]
    ELSE IF route = "Specialist Queue"
    THEN [t |-> "fallback", template |-> "injury claim type",
          route |-> route, fields |-> <<>>]
    ELSE IF missing # <<>>
    THEN [t |-> "fallback", template |-> "missing mandatory fields",
          route |-> route, fields |-> missing]
    ELSE [t |-> "fallback", template |-> "standard processing workflow",
          route |-> route, fields |-> <<>>]

\* ReasoningLLM._generate_fallback_reasoning: the template is chosen by the
\* missing list first, then by the route
generate_fallback_reasoning(missing, route) ==
    IF missing # <<>>
    THEN [t |-> "fallback", template |-> "missing mandatory fields",
          route |-> route, fields |-> missing]
    ELSE IF route = "Fast-track"
    THEN [t |-> "fallback", template |-> "estimated damage below threshold",
          route |-> route, fields |-> <<>>]
    ELSE IF route = "Investigation Flag"
    THEN [t |-> "fallback", template |-> "suspicious keywords detected",
          route |-> route, fields |-> <<>>]
    ELSE IF route = "Specialist Queue"
    THEN [t |-> "fallback", template |-> "injury claim type",
          route |-> route, fields |-> <<>>]
    ELSE [t |-> "fallback", template |-> "standard processing workflow",
          route |-> route, fields |-> <<>>]

\* the iteration as extract_fields writes it: the last failure is raised
ReasoningAttemptOutcome_raises_on_last(reply, att, retries) ==
    IF reply.ok THEN "return"
    ELSE IF att = retries - 1 THEN "raise" ELSE "retry"

\* lines 61-72, one iteration of the loop of generate_reasoning with loop
\* index att: "return" (line 66), "fallback" (line 72) or "retry"; no path
\* of the iteration leaves by "raise"
ReasoningAttemptOutcome(reply, att, retries) ==
    IF reply.ok THEN "return"
    ELSE IF att = retries - 1 THEN "fallback" ELSE "retry"

-----------------------------------------------------------------------------
(* Inputs *)

txt_a == <<"a">>
txt_hail == <<"h","a","i","l">>
txt_stage == <<"s","t","a","g","e">>
txt_a_staged_hit == <<"a"," ","s","t","a","g","e","d"," ","h","i","t">>
txt_FRAUD == <<"F","R","A","U","D">>
txt_Inconsistent == <<"I","n","c","o","n","s","i","s","t","e","n","t">>
txt_Auto == <<"A","u","t","o">>
txt_Injury == <<"I","n","j","u","r","y">>
txt_INJURY == <<"I","N","J","U","R","Y">>
txt_injuries == <<"i","n","j","u","r","i","e","s">>

\* damages around the fast-track threshold, and zero
Damages ==
    {Num(0)} \cup {Num(n) : n \in (FAST_TRACK_THRESHOLD - DamageSpread)
                                   ..(FAST_TRACK_THRESHOLD + DamageSpread)}

RawObject(p, i, q, a, c) ==
    Obj([policy_information |-> p, incident_information |-> i,
         involved_parties |-> q, asset_details |-> a, claim_type |-> c])

\* a string leaf as the extractor may deliver it: null, "", a text
StrLeaves == {None, Str(<<>>), Str(txt_a)}

\* the decoded values the validator is checked on: every checklist leaf null,
\* empty or given, groups null or of the wrong type, values of the wrong type,
\* and values that are no mapping
ValidatorInputs ==
    {Scalar} \cup
    {RawObject(p, i, q, a, c) :
        p \in {None, Str(txt_a)} \cup
              {PolicyInformation(n, h) : n \in StrLeaves \cup {Num(7)}, h \in StrLeaves},
        i \in {None} \cup
              {IncidentInformation(d, l, e) : d \in StrLeaves, l \in StrLeaves, e \in StrLeaves},
        q \in {None} \cup {InvolvedParties(m) : m \in StrLeaves},
        a \in {None} \cup
              {AssetDetails(d) : d \in {None, Num(0), Num(FAST_TRACK_THRESHOLD),
                                        NumStr(3000), Str(txt_a)}},
        c \in {None, Str(<<>>), Str(txt_Injury), Num(7)}}

\* the typed claims the router is checked on
RouterClaims ==
    {[policy_information |-> PolicyInformation(Str(txt_a), Str(txt_a)),
      incident_information |-> i,
      involved_parties |-> InvolvedParties(Str(txt_a)),
      asset_details |-> a,
      claim_type |-> c] :
        i \in {None} \cup
              {IncidentInformation(Str(txt_a), Str(txt_a), e) :
                  e \in {None, Str(<<>>), Str(txt_hail), Str(txt_stage),
                         Str(txt_a_staged_hit), Str(txt_FRAUD),
                         Str(txt_Inconsistent)}},
        a \in {None} \cup {AssetDetails(d) : d \in {None} \cup Damages},
        c \in {None, Str(injury), Str(txt_Injury), Str(txt_INJURY),
               Str(txt_injuries), Str(txt_Auto)}}

\* the missing lists the router is checked on: every sublist of the checklist
RECURSIVE SubLists(_)
SubLists(s) ==
    IF s = <<>> THEN {<<>>}
    ELSE LET rest == SubLists(Tail(s))
         IN  rest \cup {<<Head(s)>> \o r : r \in rest}

MissingLists == SubLists(MANDATORY_FIELDS)

\* the routes generate_reasoning is checked on: the five labels of the
\* router and one label that is none of them
ReasoningRoutes ==
    {"Fast-track", "Manual review", "Investigation Flag", "Specialist Queue",
     "Standard Processing", "Escalate"}

\* the missing lists generate_reasoning is checked on: every run of
\* consecutive checklist paths, the empty one included
ReasoningMissingLists ==
    {SubSeq(MANDATORY_FIELDS, i, j) :
        i \in 1..Len(MANDATORY_FIELDS), j \in 0..Len(MANDATORY_FIELDS)}

\* the claims generate_reasoning is checked on
ReasoningClaims ==
    {ClaimData,
     [ClaimData EXCEPT
        !.policy_information = PolicyInformation(Str(txt_a), Str(txt_a)),
        !.incident_information =
            IncidentInformation(Str(txt_a), Str(txt_a), Str(txt_hail)),
        !.asset_details = AssetDetails(Num(0)),
        !.claim_type = Str(txt_Auto)]}

\* the values the environment may give the two business-rule settings: the
\* defaults, thresholds next to the default, another keyword list
ConfiguredSettings ==
    {[fast_track_threshold |-> t, investigation_keywords |-> k] :
        t \in (SETTINGS_FAST_TRACK_THRESHOLD - DamageSpread)
                ..(SETTINGS_FAST_TRACK_THRESHOLD + DamageSpread),
        k \in {Settings.investigation_keywords, <<txt_hail>>}}

\* a description of n characters
LongText(n) == [i \in 1..n |-> "a"]

\* the claims the reasoning prompt is built for: no incident group, no
\* description, and descriptions of every length up to DescOver characters
\* more than the preview keeps
PromptClaims ==
    {[ClaimData EXCEPT !.claim_type = Str(txt_Auto)]} \cup
    {[ClaimData EXCEPT
        !.incident_information = IncidentInformation(Str(txt_a), Str(txt_a), e),
        !.claim_type = Str(txt_Auto)] :
        e \in {None} \cup {Str(LongText(n)) : n \in 0..(PREVIEW_CHARS + DescOver)}}

\* the objects the extraction model may deliver to the pipeline
PipelineObjects ==
    {RawObject(p, i, q, a, c) :
        p \in {None, Str(txt_a), PolicyInformation(Str(txt_a), Str(txt_a))},
        i \in {None} \cup
              {IncidentInformation(Str(txt_a), Str(txt_a), e) :
                  e \in {Str(<<>>), Str(txt_hail), Str(txt_a_staged_hit),
                         Str(txt_FRAUD)}},
        q \in {None, InvolvedParties(Str(txt_a))},
        a \in {None} \cup {AssetDetails(d) : d \in Damages \cup {Str(txt_a)}},
        c \in {None, Str(txt_Auto), Str(txt_Injury)}}

\* json.loads(s) for a text it accepts: the values s may stand for
JsonLoads(s) ==
    IF Dense(s) = <<"v">> THEN {Scalar}
    ELSE IF Dense(s) = <<"{", "}">>
    THEN {RawObject(None, None, None, None, None)}
    ELSE PipelineObjects

-----------------------------------------------------------------------------
(* app/main.py: process_claim *)

Unset == [t |-> "unset"]

\* BaseModel.model_dump(exclude_none=True) on a nested model
DumpGroup(g) == [k \in {f \in DOMAIN g.v : g.v[f].t # "null"} |-> g.v[k]]

\* claim_data.model_dump(exclude_none=True)
model_dump(cd) ==
    [k \in {f \in DOMAIN cd : cd[f].t # "null"} |->
        IF cd[k].t = "obj" THEN DumpGroup(cd[k]) ELSE cd[k]]

ProcessedClaimResponse(fields, missing, route, text) ==
    [extractedFields |-> fields, missingFields |-> missing,
     recommendedRoute |-> route, reasoning |-> text]

\* the state of a request before any stage has run
Fresh ==
    /\ extracted_data = Unset
    /\ claim_data = Unset
    /\ missing_fields = <<>>
    /\ recommended_route = ""
    /\ reasoning = Unset
    /\ attempt = 0
    /\ ext_log = <<>>
    /\ rsn_log = <<>>
    /\ stages = <<>>
    /\ error = ""
    /\ response = Unset
    /\ prompt = Unset
    /\ llm_prompts = <<>>

Init ==
    /\ pc = "start"
    /\ max_retries \in 0..MaxRetriesCap
    /\ settings = Settings
    /\ Fresh

\* lines 76-85: the upload is rejected unless it has a .pdf or .txt name
CheckFile ==
    /\ pc = "start"
    /\ \E file \in {"no filename", "unsupported type", "supported"} :
          IF file = "supported"
          THEN pc' = "parse" /\ error' = error
          ELSE pc' = "done" /\ error' = "400 " \o file
    /\ UNCHANGED <<max_retries, extracted_data, claim_data, missing_fields,
                   recommended_route, reasoning, attempt, ext_log, rsn_log,
                   stages, response>>
    /\ UNCHANGED <<settings, prompt, llm_prompts>>

\* lines 98-108: parser.parse raises, yields no text, or yields text
ParseDocument ==
    /\ pc = "parse"
    /\ \E parsed \in {"raises", "empty", "text"} :
          IF parsed = "text"
          THEN pc' = "call_extract" /\ error' = error
          ELSE pc' = "done" /\ error' = "400 parse"
    /\ stages' = Append(stages, "parse")
    /\ UNCHANGED <<max_retries, extracted_data, claim_data, missing_fields,
                   recommended_route, reasoning, attempt, ext_log, rsn_log,
                   response>>
    /\ UNCHANGED <<settings, prompt, llm_prompts>>

\* line 112 and extractor_llm.py line 54: extract_fields is entered
CallExtractor ==
    /\ pc = "call_extract"
    /\ pc' = "extract"
    /\ attempt' = 0
    /\ ext_log' = <<>>
    /\ stages' = Append(stages, "extract")
    /\ UNCHANGED <<max_retries, extracted_data, claim_data, missing_fields,
                   recommended_route, reasoning, rsn_log, error, response>>
    /\ prompt' = build_extraction_prompt("document text")
    /\ llm_prompts' = <<>>
    /\ UNCHANGED settings

\* extractor_llm.py lines 56-95: one iteration of the retry loop
ExtractAttempt ==
    /\ pc = "extract"
    /\ attempt < max_retries
    /\ \E reply \in ExtractionReplies :
          LET outcome == ExtractAttemptOutcome(reply, attempt, max_retries)
              content == StripFences(reply.text)
          IN  /\ ext_log' = Append(ext_log, AttemptRecord(reply))
              /\ CASE outcome = "return" ->
                        /\ \E value \in JsonLoads(content) : extracted_data' = value
                        /\ pc' = "extract_returned"
                        /\ attempt' = attempt
                   [] outcome = "return_recovered" ->
                        /\ \E value \in JsonLoads(RecoveryText(content)) :
                              extracted_data' = value
                        /\ pc' = "extract_returned"
                        /\ attempt' = attempt
                   [] outcome = "raise" ->
                        /\ pc' = "extract_raised"
                        /\ UNCHANGED <<extracted_data, attempt>>
                   [] OTHER ->
                        /\ attempt' = attempt + 1
                        /\ UNCHANGED <<pc, extracted_data>>
    /\ UNCHANGED <<max_retries, claim_data, missing_fields, recommended_route,
                   reasoning, rsn_log, stages, error, response>>
    /\ llm_prompts' = Append(llm_prompts, extract_call_prompt(prompt, attempt))
    /\ UNCHANGED <<settings, prompt>>

\* extractor_llm.py line 97: the loop ended without returning or raising
ExtractLoopExhausted ==
    /\ pc = "extract"
    /\ attempt >= max_retries
    /\ pc' = "extract_raised"
    /\ UNCHANGED <<max_retries, extracted_data, claim_data, missing_fields,
                   recommended_route, reasoning, attempt, ext_log, rsn_log,
                   stages, error, response>>
    /\ UNCHANGED <<settings, prompt, llm_prompts>>

\* lines 112-113: extract_fields returned its value
ExtractReturned ==
    /\ pc = "extract_returned"
    /\ pc' = "validate"
    /\ attempt' = 0
    /\ ext_log' = <<>>
    /\ UNCHANGED <<max_retries, extracted_data, claim_data, missing_fields,
                   recommended_route, reasoning, rsn_log, stages, error,
                   response>>
    /\ llm_prompts' = <<>>
    /\ UNCHANGED <<settings, prompt>>

\* the extractor's failure is swallowed and the pipeline goes on
ExtractRaised_degrades ==
    /\ pc = "extract_raised"
    /\ pc' = "validate"
    /\ attempt' = 0
    /\ ext_log' = <<>>
    /\ UNCHANGED <<max_retries, extracted_data, claim_data, missing_fields,
                   recommended_route, reasoning, rsn_log, stages, error,
                   response>>
    /\ llm_prompts' = <<>>
    /\ UNCHANGED <<settings, prompt>>

\* lines 114-119: extract_fields raised; the request fails with status 500
ExtractRaised ==
    /\ pc = "extract_raised"
    /\ pc' = "done"
    /\ error' = "500 extract"
    /\ attempt' = 0
    /\ ext_log' = <<>>
    /\ UNCHANGED <<max_retries, extracted_data, claim_data, missing_fields,
                   recommended_route, reasoning, rsn_log, stages, response>>
    /\ llm_prompts' = <<>>
    /\ UNCHANGED <<settings, prompt>>

\* lines 122-130: validator.validate
ValidateStep ==
    /\ pc = "validate"
    /\ LET r == validate(extracted_data)
       IN  IF r.raised
           THEN /\ pc' = "done"
                /\ error' = "500 validate"
                /\ UNCHANGED <<claim_data, missing_fields>>
           ELSE /\ pc' = "route"
                /\ claim_data' = r.claim_data
                /\ missing_fields' = r.missing_fields
                /\ error' = error
    /\ stages' = Append(stages, "validate")
    /\ UNCHANGED <<max_retries, extracted_data, recommended_route, reasoning,
                   attempt, ext_log, rsn_log, response>>
    /\ UNCHANGED <<settings, prompt, llm_prompts>>

\* lines 132-141: router.route_claim
RouteStep ==
    /\ pc = "route"
    /\ recommended_route' = route_claim(claim_data, missing_fields)
    /\ pc' = "call_reasoning"
    /\ stages' = Append(stages, "route")
    /\ UNCHANGED <<max_retries, extracted_data, claim_data, missing_fields,
                   reasoning, attempt, ext_log, rsn_log, error, response>>
    /\ UNCHANGED <<settings, prompt, llm_prompts>>

\* line 145 and reasoning_llm.py line 59: generate_reasoning is entered
CallReasoning ==
    /\ pc = "call_reasoning"
    /\ pc' = "reasoning"
    /\ attempt' = 0
    /\ rsn_log' = <<>>
    /\ stages' = Append(stages, "reasoning")
    /\ UNCHANGED <<max_retries, extracted_data, claim_data, missing_fields,
                   recommended_route, reasoning, ext_log, error, response>>
    /\ prompt' = build_reasoning_prompt(claim_data, missing_fields, recommended_route)
    /\ llm_prompts' = <<>>
    /\ UNCHANGED settings

\* reasoning_llm.py lines 61-72: one iteration of the retry loop
ReasoningAttempt ==
    /\ pc = "reasoning"
    /\ attempt < max_retries
    /\ \E reply \in ReasoningReplies :
          LET outcome == ReasoningAttemptOutcome(reply, attempt, max_retries)
          IN  /\ rsn_log' = Append(rsn_log, reply)
              /\ CASE outcome = "return" ->
                        /\ reasoning' = [t |-> "llm", text |-> Strip(reply.text)]
                        /\ pc' = "respond"
                        /\ attempt' = attempt
                   [] outcome = "fallback" ->
                        /\ reasoning' = generate_fallback_reasoning(
                                            missing_fields, recommended_route)
                        /\ pc' = "respond"
                        /\ attempt' = attempt
                   [] outcome = "raise" ->
                        \* main.py lines 150-155: the handler's own text
                        /\ reasoning' = [t |-> "handler",
                                         route |-> recommended_route]
                        /\ pc' = "respond"
                        /\ attempt' = attempt
                   [] OTHER ->
                        /\ attempt' = attempt + 1
                        /\ UNCHANGED <<pc, reasoning>>
    /\ UNCHANGED <<max_retries, extracted_data, claim_data, missing_fields,
                   recommended_route, ext_log, stages, error, response>>
    /\ llm_prompts' = Append(llm_prompts, prompt)
    /\ UNCHANGED <<settings, prompt>>

\* reasoning_llm.py line 74: the loop ended without returning.  This needs
\* max_retries <= 0, and then extract_fields has already failed the request
\* (both settings classes read the same max_retries), so the handler never
\* gets here and Next leaves the step out; NextReasoning has it
ReasoningLoopExhausted ==
    /\ pc = "reasoning"
    /\ attempt >= max_retries
    /\ reasoning' = generate_fallback_reasoning(missing_fields, recommended_route)
    /\ pc' = "respond"
    /\ UNCHANGED <<max_retries, extracted_data, claim_data, missing_fields,
                   recommended_route, attempt, ext_log, rsn_log, stages, error,
                   response>>
    /\ UNCHANGED <<settings, prompt, llm_prompts>>

\* lines 145-169: generate_reasoning returned; the response is built
Respond ==
    /\ pc = "respond"
    /\ response' = ProcessedClaimResponse(model_dump(claim_data), missing_fields,
                                          recommended_route, reasoning)
    /\ pc' = "done"
    /\ attempt' = 0
    /\ UNCHANGED <<max_retries, extracted_data, claim_data, missing_fields,
                   recommended_route, reasoning, ext_log, rsn_log, stages,
                   error>>
    /\ UNCHANGED <<settings, prompt, llm_prompts>>

Next ==
    \/ CheckFile
    \/ ParseDocument
    \/ CallExtractor
    \/ ExtractAttempt
    \/ ExtractLoopExhausted
    \/ ExtractReturned
    \/ ExtractRaised
    \/ ValidateStep
    \/ RouteStep
    \/ CallReasoning
    \/ ReasoningAttempt
    \/ Respond

\* one request through the whole handler
Spec == Init /\ [][Next]_vars

\* route_claim applied to every claim and every missing list
InitRouter ==
    /\ pc = "route"
    /\ max_retries = MaxRetriesCap
    /\ Fresh!1 /\ Fresh!4 /\ Fresh!5 /\ Fresh!6 /\ Fresh!7 /\ Fresh!8
    /\ Fresh!9 /\ Fresh!10 /\ Fresh!11 /\ Fresh!12 /\ Fresh!13
    /\ settings = Settings
    /\ claim_data \in RouterClaims
    /\ missing_fields \in MissingLists

NextRouter == RouteStep

SpecRouter == InitRouter /\ [][NextRouter]_vars

\* generate_reasoning applied to every claim, missing list and route
InitReasoning ==
    /\ pc = "call_reasoning"
    /\ max_retries \in 0..MaxRetriesCap
    /\ Fresh!1 /\ Fresh!5 /\ Fresh!6 /\ Fresh!7 /\ Fresh!8 /\ Fresh!9
    /\ Fresh!10 /\ Fresh!11 /\ Fresh!12 /\ Fresh!13
    /\ settings = Settings
    /\ claim_data \in ReasoningClaims
    /\ missing_fields \in ReasoningMissingLists
    /\ recommended_route \in ReasoningRoutes

NextReasoning ==
    \/ CallReasoning
    \/ ReasoningAttempt
    \/ ReasoningLoopExhausted

SpecReasoning == InitReasoning /\ [][NextReasoning]_vars

\* route_claim applied to every claim, with the missing list validate gives
\* it, under every configuration
InitConfiguredRouter ==
    /\ pc = "route"
    /\ max_retries = MaxRetriesCap
    /\ Fresh!1 /\ Fresh!4 /\ Fresh!5 /\ Fresh!6 /\ Fresh!7 /\ Fresh!8
    /\ Fresh!9 /\ Fresh!10 /\ Fresh!11 /\ Fresh!12 /\ Fresh!13
    /\ settings \in ConfiguredSettings
    /\ claim_data \in RouterClaims
    /\ missing_fields = check_mandatory_fields(claim_data)

SpecConfiguredRouter == InitConfiguredRouter /\ [][NextRouter]_vars

\* _build_reasoning_prompt applied to claims with descriptions of every
\* length, with the missing list and the route the pipeline gives them
InitPrompt ==
    /\ pc = "call_reasoning"
    /\ max_retries = MaxRetriesCap
    /\ Fresh!1 /\ Fresh!5 /\ Fresh!6 /\ Fresh!7 /\ Fresh!8 /\ Fresh!9
    /\ Fresh!10 /\ Fresh!11 /\ Fresh!12 /\ Fresh!13
    /\ settings = Settings
    /\ claim_data \in PromptClaims
    /\ missing_fields = check_mandatory_fields(claim_data)
    /\ recommended_route = route_claim(claim_data, missing_fields)

NextPrompt == CallReasoning

SpecPrompt == InitPrompt /\ [][NextPrompt]_vars

\* validate applied to every decoded value
InitValidator ==
    /\ pc = "validate"
    /\ max_retries = MaxRetriesCap
    /\ Fresh!2 /\ Fresh!3 /\ Fresh!4 /\ Fresh!5 /\ Fresh!6 /\ Fresh!7
    /\ Fresh!8 /\ Fresh!9 /\ Fresh!10 /\ Fresh!11 /\ Fresh!12 /\ Fresh!13
    /\ settings = Settings
    /\ extracted_data \in ValidatorInputs

NextValidator == ValidateStep

SpecValidator == InitValidator /\ [][NextValidator]_vars

-----------------------------------------------------------------------------
(* Properties of route_claim (SpecRouter) *)

\* route_claim has returned
Routed == recommended_route # ""

\* the claim's description, "" when the group or the field is absent
DescriptionText ==
    IF claim_data.incident_information.t = "obj"
       /\ claim_data.incident_information.v.description.t = "str"
    THEN claim_data.incident_information.v.description.v
    ELSE <<>>

\* the lower-cased description contains fraud, inconsistent or staged
KeywordInDescription ==
    \E kw \in { <<"f","r","a","u","d">>,
                <<"i","n","c","o","n","s","i","s","t","e","n","t">>,
                <<"s","t","a","g","e","d">> } :
        Contains(Lower(DescriptionText), kw)

\* claim_type equals "injury" ignoring letter case
InjuryClaim ==
    /\ claim_data.claim_type.t = "str"
    /\ Lower(claim_data.claim_type.v) = <<"i","n","j","u","r","y">>

\* estimated_damage is given
DamageGiven ==
    /\ claim_data.asset_details.t = "obj"
    /\ claim_data.asset_details.v.estimated_damage.t = "num"

DamageValue == claim_data.asset_details.v.estimated_damage.v

C4_StrictThreshold ==
    (Routed /\ missing_fields = <<>> /\ ~KeywordInDescription /\ ~InjuryClaim
     /\ DamageGiven)
        => /\ DamageValue < 25000 => recommended_route = "Fast-track"
           /\ DamageValue >= 25000 => recommended_route = "Standard Processing"

\* a damage of exactly 25000 was routed "Standard Processing"
C4_Witness ==
    /\ Routed
    /\ missing_fields = <<>>
    /\ ~KeywordInDescription /\ ~InjuryClaim
    /\ DamageGiven /\ DamageValue = 25000
    /\ recommended_route = "Standard Processing"

-----------------------------------------------------------------------------
(* Properties of validate (SpecValidator) *)

\* validate has returned or raised
Validated == pc # "validate" /\ "validate" \in {stages[i] : i \in DOMAIN stages}

\* the value ClaimData holds at a checklist path, None when the group holding
\* it is absent
PathValue(cd, path) ==
    CASE path = "policy_information.policy_number" ->
            IF cd.policy_information.t = "obj"
            THEN cd.policy_information.v.policy_number ELSE None
      [] path = "policy_information.policyholder_name" ->
            IF cd.policy_information.t = "obj"
            THEN cd.policy_information.v.policyholder_name ELSE None
      [] path = "incident_information.date" ->
            IF cd.incident_information.t = "obj"
            THEN cd.incident_information.v.date ELSE None
      [] path = "incident_information.location" ->
            IF cd.incident_information.t = "obj"
            THEN cd.incident_information.v.location ELSE None
      [] path = "incident_information.description" ->
            IF cd.incident_information.t = "obj"
            THEN cd.incident_information.v.description ELSE None
      [] path = "involved_parties.claimant" ->
            IF cd.involved_parties.t = "obj"
            THEN cd.involved_parties.v.claimant ELSE None
      [] path = "asset_details.estimated_damage" ->
            IF cd.asset_details.t = "obj"
            THEN cd.asset_details.v.estimated_damage ELSE None
      [] OTHER -> cd.claim_type

Checklist ==
    << "policy_information.policy_number",
       "policy_information.policyholder_name",
       "incident_information.date",
       "incident_information.location",
       "incident_information.description",
       "involved_parties.claimant",
       "asset_details.estimated_damage",
       "claim_type" >>

Listed(path) == \E i \in DOMAIN missing_fields : missing_fields[i] = path

\* C5: validate never raises; when the coercion into ClaimData fails it
\* returns the all-absent ClaimData and all 8 checklist paths, never a
\* ClaimData that keeps part of the raw values
C5_CoercionFailureGivesEmptyClaim ==
    Validated =>
        /\ pc = "route" /\ error = ""
        /\ ~ClaimDataOk(extracted_data) =>
              /\ \A f \in DOMAIN claim_data : claim_data[f] = None
              /\ missing_fields = Checklist

\* a mapping with a wrong-typed value next to a well-typed claim_type was
\* validated
C5_Witness ==
    /\ Validated
    /\ extracted_data.t = "obj"
    /\ extracted_data.v.claim_type = Str(<<"I","n","j","u","r","y">>)
    /\ extracted_data.v.policy_information.t = "obj"
    /\ extracted_data.v.policy_information.v.policy_number.t = "num"
    /\ extracted_data.v.policy_information.v.policyholder_name.t = "str"
    /\ missing_fields = Checklist

\* C6 as stated: a path is listed exactly when the field or its group is
\* absent, so a string field present with the value "" is not listed
C6_ListedIffAbsent ==
    Validated =>
        \A i \in DOMAIN Checklist :
            Listed(Checklist[i]) <=> PathValue(claim_data, Checklist[i]).t = "null"

\* C6 amended: a path is listed exactly when the field or its group is
\* absent or the field is a string field holding the empty string;
\* estimated_damage = 0 is a present value and is not listed
C6_ListedIffAbsentOrEmpty ==
    Validated =>
        \A i \in DOMAIN Checklist :
            Listed(Checklist[i]) <=>
                \/ PathValue(claim_data, Checklist[i]).t = "null"
                \/ PathValue(claim_data, Checklist[i]) = Str(<<>>)

\* a claim with estimated_damage = 0 and an empty policy_number was validated:
\* the damage is not listed, the policy number is
C6_Witness ==
    /\ Validated
    /\ PathValue(claim_data, "asset_details.estimated_damage") = Num(0)
    /\ ~Listed("asset_details.estimated_damage")
    /\ PathValue(claim_data, "policy_information.policy_number") = Str(<<>>)
    /\ Listed("policy_information.policy_number")

\* position of a path in the checklist (0 when it is no checklist path)
ChecklistIndex(path) ==
    IF \E i \in DOMAIN Checklist : Checklist[i] = path
    THEN CHOOSE i \in DOMAIN Checklist : Checklist[i] = path
    ELSE 0

\* the decoded value of {"claim_type": "Injury"}
OnlyClaimTypeInjury ==
    RawObject(None, None, None, None, Str(<<"I","n","j","u","r","y">>))

\* C7: the missing list is a duplicate-free sublist of the checklist in
\* checklist order; {"claim_type": "Injury"} alone yields claim_type "Injury"
\* and the other 7 paths in that order
C7_MissingInChecklistOrder ==
    Validated =>
        /\ \A i \in DOMAIN missing_fields : ChecklistIndex(missing_fields[i]) > 0
        /\ \A i, j \in DOMAIN missing_fields :
              i < j => ChecklistIndex(missing_fields[i]) < ChecklistIndex(missing_fields[j])
        /\ extracted_data = OnlyClaimTypeInjury =>
              /\ claim_data.claim_type = Str(<<"I","n","j","u","r","y">>)
              /\ missing_fields = SubSeq(Checklist, 1, 7)

\* {"claim_type": "Injury"} was validated
C7_Witness ==
    /\ Validated
    /\ extracted_data = OnlyClaimTypeInjury
    /\ Len(missing_fields) = 7

-----------------------------------------------------------------------------
(* Properties of extract_fields and of the handler (Spec) *)

\* extract_fields has returned or raised and the handler has not yet gone on
ExtractFinished == pc \in {"extract_returned", "extract_raised"}

\* C8: extract_fields returns a value exactly when some attempt's
\* fence-stripped reply parsed as strict JSON, or the final attempt's reply
\* failed strict parsing and its first-{ to last-} substring parsed; in every
\* other case it raises.  An earlier attempt is never recovered.
C8_ReturnsIffParsedOrRecoveredLast ==
    ExtractFinished =>
        (pc = "extract_returned" <=>
            \/ \E i \in DOMAIN ext_log : ext_log[i].strict
            \/ /\ max_retries > 0
               /\ Len(ext_log) = max_retries
               /\ ~ext_log[max_retries].err
               /\ ~ext_log[max_retries].strict
               /\ ext_log[max_retries].recov)

\* the first attempt's reply was recoverable but not strict JSON and the loop
\* went on; the value came from the recovery of the final attempt
C8_Witness ==
    /\ pc = "extract_returned"
    /\ max_retries >= 2
    /\ Len(ext_log) = max_retries
    /\ ext_log[1].recov /\ ~ext_log[1].strict
    /\ \A i \in DOMAIN ext_log : ~ext_log[i].strict
    /\ ext_log[max_retries].recov

StageOrder == <<"parse", "extract", "validate", "route", "reasoning">>

StageSet == {stages[i] : i \in DOMAIN stages}

\* C9: the stages run in the order extractor, validator, router, reasoning
\* generator, each at most once and each on the result of the one before;
\* when the extractor raises, no later stage runs and the request ends with
\* an error and no response
C9_StagesInOrder ==
    /\ \E n \in 0..Len(StageOrder) : stages = SubSeq(StageOrder, 1, n)
    /\ "validate" \in StageSet => extracted_data # Unset
    /\ "route" \in StageSet => claim_data # Unset
    /\ "reasoning" \in StageSet => recommended_route # ""
    /\ response # Unset => reasoning # Unset /\ error = ""
    /\ pc = "extract_raised" => Len(ext_log) = max_retries
    /\ (pc = "extract_raised" \/ error = "500 extract") =>
          /\ stages = <<"parse", "extract">>
          /\ extracted_data = Unset
          /\ claim_data = Unset
          /\ recommended_route = ""
          /\ reasoning = Unset
          /\ response = Unset
    /\ (pc = "done" /\ extracted_data = Unset) => error # "" /\ response = Unset

\* a request ended with the extractor's error after more than one attempt
C9_Witness ==
    /\ pc = "done"
    /\ error = "500 extract"
    /\ max_retries >= 2
    /\ stages = <<"parse", "extract">>

\* extract_fields has returned a value to the handler
ExtractionSucceeded == extracted_data # Unset

-----------------------------------------------------------------------------
(* generate_reasoning *)

\* every recorded call of the reasoning model failed
AllReasoningFailed == \A i \in DOMAIN rsn_log : ~rsn_log[i].ok

\* the reply of the latest call
LastReasoningReply == rsn_log[Len(rsn_log)]

\* C11: generate_reasoning never raises: it calls the model at most
\* max_retries times, a call is made only after every earlier call failed,
\* the first reply that succeeds is returned trimmed and ends the calls, and
\* the templated fallback is returned only when all max_retries calls failed
C11_ReasoningNeverRaises ==
    /\ Len(rsn_log) <= max_retries
    /\ Len(llm_prompts) = Len(rsn_log)
    /\ \A i \in DOMAIN rsn_log : i < Len(rsn_log) => ~rsn_log[i].ok
    /\ pc = "reasoning" => AllReasoningFailed
    /\ pc = "respond" =>
          /\ reasoning.t \in {"llm", "fallback"}
          /\ reasoning.t = "llm" <=> ~AllReasoningFailed
          /\ reasoning.t = "llm" =>
                reasoning.text = Strip(LastReasoningReply.text)
          /\ reasoning.t = "fallback" => Len(rsn_log) = max_retries

\* the second of three allowed calls succeeded with a reply that needed
\* trimming, and no third call was made
C11_Witness ==
    /\ pc = "respond"
    /\ max_retries = 3
    /\ Len(rsn_log) = 2
    /\ ~rsn_log[1].ok
    /\ rsn_log[2].ok
    /\ rsn_log[2].text # Strip(rsn_log[2].text)
    /\ reasoning = [t |-> "llm", text |-> Strip(rsn_log[2].text)]

-----------------------------------------------------------------------------
(* Configuration *)

\* the lower-cased description contains a keyword of the configured list
ConfiguredKeywordInDescription ==
    \E i \in DOMAIN settings.investigation_keywords :
        Contains(Lower(DescriptionText), settings.investigation_keywords[i])

\* C12: the router rules use the configured values: a fully validated claim
\* is routed "Investigation Flag" exactly when its lower-cased description
\* contains a configured keyword, and a fully validated non-injury claim
\* without a configured keyword is routed "Fast-track" exactly when its
\* estimated damage is below the configured threshold
C12_RouterUsesConfiguredValues ==
    (Routed /\ missing_fields = <<>>) =>
        /\ recommended_route = "Investigation Flag"
              <=> ConfiguredKeywordInDescription
        /\ (~InjuryClaim /\ ~ConfiguredKeywordInDescription) =>
              (recommended_route = "Fast-track"
                  <=> (DamageGiven
                       /\ DamageValue < settings.fast_track_threshold))

\* with nothing overridden the configured values are the router's own
C12_DefaultsAgree ==
    /\ Settings.fast_track_threshold = FAST_TRACK_THRESHOLD
    /\ Settings.investigation_keywords = INVESTIGATION_KEYWORDS
    /\ settings = Settings => C12_RouterUsesConfiguredValues

-----------------------------------------------------------------------------
(* extract_fields: the retry loop *)

\* extract_fields is running or has just finished
InExtractFields == pc \in {"extract", "extract_returned", "extract_raised"}

\* C13: extract_fields calls the model at most max_retries times, once per
\* attempt and one attempt after the other, every time with the prompt built
\* before the loop; an attempt is made only after all earlier attempts
\* failed, and none is made after a reply parsed as strict JSON
C13_BoundedBlindRetries ==
    /\ Len(ext_log) <= max_retries
    /\ InExtractFields =>
          /\ Len(llm_prompts) = Len(ext_log)
          /\ \A i \in DOMAIN llm_prompts :
                llm_prompts[i] = build_extraction_prompt("document text")
          /\ \A i \in DOMAIN ext_log :
                i < Len(ext_log) => ~ext_log[i].strict
          /\ pc = "extract" =>
                /\ attempt = Len(ext_log)
                /\ \A i \in DOMAIN ext_log : ~ext_log[i].strict
          /\ (\E i \in DOMAIN ext_log : ext_log[i].strict) =>
                pc = "extract_returned"

\* of three allowed attempts the first reply failed to parse, the second
\* parsed as strict JSON, and no third call was made
C13_Witness ==
    /\ pc = "extract_returned"
    /\ max_retries = 3
    /\ Len(ext_log) = 2
    /\ ~ext_log[1].err /\ ~ext_log[1].strict
    /\ ext_log[2].strict
    /\ llm_prompts = <<prompt, prompt>>

-----------------------------------------------------------------------------
(* generate_reasoning: the fallback text *)

\* generate_reasoning has returned after every call it made failed
ReasoningFellBack == pc = "respond" /\ AllReasoningFailed

\* C14: when every reasoning attempt fails the returned text depends on the
\* missing list and the route only: with a non-empty missing list it names
\* every missing path, whatever the route; otherwise it is the
\* damage-below-threshold text for "Fast-track", the suspicious-keyword text
\* for "Investigation Flag", the injury text for "Specialist Queue" and the
\* standard-processing text for every other route
C14_FallbackByMissingThenRoute ==
    ReasoningFellBack =>
        /\ reasoning.t = "fallback"
        /\ reasoning.route = recommended_route
        /\ missing_fields # <<>> =>
              /\ reasoning.template = "missing mandatory fields"
              /\ reasoning.fields = missing_fields
        /\ missing_fields = <<>> =>
              /\ reasoning.fields = <<>>
              /\ recommended_route = "Fast-track" =>
                    reasoning.template = "estimated damage below threshold"
              /\ recommended_route = "Investigation Flag" =>
                    reasoning.template = "suspicious keywords detected"
              /\ recommended_route = "Specialist Queue" =>
                    reasoning.template = "injury claim type"
              /\ recommended_route \notin {"Fast-track", "Investigation Flag",
                                           "Specialist Queue"} =>
                    reasoning.template = "standard processing workflow"

\* three calls failed for a claim routed "Fast-track" that was handed a
\* non-empty missing list, and the text names the missing paths
C14_Witness ==
    /\ pc = "respond"
    /\ max_retries = 3
    /\ Len(rsn_log) = 3
    /\ AllReasoningFailed
    /\ recommended_route = "Fast-track"
    /\ Len(missing_fields) = 2
    /\ reasoning.template = "missing mandatory fields"
    /\ reasoning.fields = missing_fields

-----------------------------------------------------------------------------
(* _build_reasoning_prompt: the description preview *)

\* the reasoning prompt has been built
ReasoningPromptBuilt == prompt # Unset /\ prompt.kind = "reasoning"

\* the preview placed in the prompt
Preview == prompt.claim_summary.description_preview

\* the claim has a non-empty description
HasDescription ==
    /\ claim_data.incident_information.t = "obj"
    /\ claim_data.incident_information.v.description.t = "str"
    /\ claim_data.incident_information.v.description.v # <<>>

Ellipsis == <<".", ".", ".">>

\* C15 as stated: for every description the preview in the reasoning prompt
\* is at most 200 characters long
C15_PreviewAtMost200 ==
    (ReasoningPromptBuilt /\ Preview.t = "str") =>
        Len(Preview.v) <= PREVIEW_CHARS

\* C15: the preview is the first 200 characters of the description followed
\* by "...", so it is at most 203 characters long; the "..." is appended to
\* shorter descriptions too, and there is no preview when the description is
\* absent or empty
C15_PreviewIsCutPlusEllipsis ==
    ReasoningPromptBuilt =>
        /\ ~HasDescription => Preview = None
        /\ HasDescription =>
              /\ Preview.t = "str"
              /\ Len(Preview.v) <= PREVIEW_CHARS + Len(Ellipsis)
              /\ Len(Preview.v) = Len(DescriptionText) + Len(Ellipsis)
                    <=> Len(DescriptionText) <= PREVIEW_CHARS
              /\ \E n \in 0..PREVIEW_CHARS :
                    /\ n = Len(Preview.v) - Len(Ellipsis)
                    /\ SubSeq(Preview.v, 1, n) = SubSeq(DescriptionText, 1, n)
                    /\ SubSeq(Preview.v, n + 1, Len(Preview.v)) = Ellipsis
                    /\ n < PREVIEW_CHARS => n = Len(DescriptionText)

\* a description longer than the preview keeps was cut, and the preview is
\* longer than 200 characters
C15_Witness ==
    /\ ReasoningPromptBuilt
    /\ HasDescription
    /\ Len(DescriptionText) > PREVIEW_CHARS + 1
    /\ Len(Preview.v) = PREVIEW_CHARS + Len(Ellipsis)

-----------------------------------------------------------------------------
(* process_claim: the response *)

RouteLabels ==
    {"Fast-track", "Manual review", "Investigation Flag", "Specialist Queue",
     "Standard Processing"}

C16_Witness ==
    /\ response # Unset
    /\ ClaimDataOk(extracted_data)
    /\ response.recommendedRoute = "Fast-track"
    /\ response.missingFields = <<>>
    /\ DOMAIN response.extractedFields =
          {"policy_information", "incident_information", "involved_parties",
           "asset_details", "claim_type"}

====
